---- MODULE Spec2Model ----
(***************************************************************************)
(* Login Guard of disaquiz: the login_attempts table with the two stored   *)
(* procedures is_user_blocked and record_login_attempt (migration          *)
(* 20250716170005), the signIn function of the useAuth hook that calls     *)
(* them around the credential verification, and the procedure's other     *)
(* callers (such as the reset-password page, which records a successful    *)
(* attempt after a password update) as direct calls of the procedure.      *)
(*                                                                         *)
(* Time is a counter of 12-hour clock ticks, so INTERVAL '24 hours' is two *)
(* ticks.  A database transaction is short against a tick: the clock does  *)
(* not advance while a record_login_attempt transaction is between its     *)
(* SELECT and its INSERT .. ON CONFLICT, so now() is the same in both.     *)
(* The columns id, last_attempt_at, created_at and updated_at are written  *)
(* but never read by any code, and are left out of the rows.               *)
(*                                                                         *)
(* Quiz of disaquiz: the questions, user_answers and leaderboard tables,   *)
(* the Index page with the QuizInterface (load, answer, submit) and the    *)
(* ResultsView (score), and the Leaderboard component (latest attempt per  *)
(* user, ranking).  Numbers that JavaScript keeps as floating point are    *)
(* kept exact: a percentage is a fraction, the DECIMAL(5,2) column an      *)
(* integer of hundredths.  The questions table does not change in a run.   *)
(***************************************************************************)
EXTENDS Integers, Sequences, FiniteSets, TLC

\* ---------------------------------------------------------------- bounds
\* The clock runs from 0 to MaxTime.
MaxTime == 2
\* At most MaxFailed calls that record a failure are started in a run.
MaxFailed == 6

\* A paper of the quiz runs has at most MaxQuestions questions.
MaxQuestions == 1
\* At most MaxRows leaderboard rows are inserted in a run.
MaxRows == 2
\* The scoring is applied to question lists of up to MaxLen questions.
MaxLen == 3
\* The ranking is applied to leaderboard tables of up to MaxEntries rows
\* with completion times from 0 to MaxStamp.
MaxEntries == 3
MaxStamp == 3
\* The long leaderboards have up to MaxUsers users.
MaxUsers == 22

\* ------------------------------------------------------ program constants
\* max_attempts INTEGER := 5
max_attempts == 5
\* INTERVAL '24 hours', in clock ticks of 12 hours
BlockInterval == 2
\* const remainingAttempts = 5 - failedAttempts
ClientMaxAttempts == 5

\* .limit(100) of the two question queries
QuestionLimit == 100
\* .slice(0, 20) of the ranking
LeaderboardLimit == 20
\* new Date(completed_at) keeps whole milliseconds: in the ranking runs a
\* completion time counts units of which TicksPerMs make a millisecond
TicksPerMs == 2

Emails == {"a@b.com", "c@d.com"}
Clients == {"s1", "s2"}

\* A nullable value is a set with at most one element; NULL is the empty set.
NULL == {}

VARIABLES
  login_attempts,  \* the table: a set of rows, at most one per email
  now,             \* the clock
  pc,              \* per client: where its current call stands
  cur,             \* per client: current_attempts of its record_login_attempt
  inv,             \* per client: the locals of its current invocation
  fails,           \* per email: failed record_login_attempt calls completed
                   \* since the last successful one (history variable)
  started,         \* the number of failed attempts started so far
  questions,       \* the questions table: a set of rows
  user_answers,    \* the user_answers table: at most one row per
                   \* (user_id, question_id)
  leaderboard,     \* the leaderboard table: a set of rows
  quiz,            \* per browser session: the state of the Index page and
                   \* of the component it shows
  board            \* the state of the Leaderboard component

vars == <<login_attempts, now, pc, cur, inv, fails, started,
          questions, user_answers, leaderboard, quiz, board>>

\* The tables and components of the quiz.
quizVars == <<questions, user_answers, leaderboard, quiz, board>>

\* The table and the clients of the login guard.
guardVars == <<login_attempts, pc, cur, inv, fails, started>>

\* --------------------------------------------------------------- the store

\* SELECT * FROM public.login_attempts WHERE email = user_email
RowsOf(table, user_email) == {r \in table : r.email = user_email}

\* COALESCE(v, d) for a nullable integer
Coalesce(v, d) == IF v = NULL THEN d ELSE CHOOSE x \in v : TRUE

\* INSERT INTO login_attempts (email, failed_attempts, .., blocked_until)
\* VALUES (..) ON CONFLICT (email) DO UPDATE SET failed_attempts = ..,
\* blocked_until = ..: the unique index on email keeps one row per email.
Upsert(table, user_email, failed, blocked) ==
  {r \in table : r.email # user_email}
    \cup {[email |-> user_email, failed_attempts |-> failed,
           blocked_until |-> blocked]}

\* is_user_blocked with blocked_until >= now() for blocked_until > now()
is_user_blocked_Inclusive(table, t_now, user_email) ==
  \E r \in RowsOf(table, user_email) : \E t \in r.blocked_until : t >= t_now

\* public.is_user_blocked(user_email), evaluated on a table at a time
is_user_blocked(table, t_now, user_email) ==
  LET found == RowsOf(table, user_email) IN
  IF found = {} THEN FALSE
  ELSE LET attempt_record == CHOOSE r \in found : TRUE IN
       IF attempt_record.blocked_until # NULL
            /\ (\A t \in attempt_record.blocked_until : t > t_now)
       THEN TRUE
       ELSE FALSE

\* The block set with current_attempts > max_attempts for >=
BlockedUntilFor_Strict(current_attempts, t_now) ==
  IF current_attempts > max_attempts THEN {t_now + BlockInterval} ELSE NULL

\* The block set one failure early
BlockedUntilFor_Early(current_attempts, t_now) ==
  IF current_attempts >= max_attempts - 1 THEN {t_now + BlockInterval} ELSE NULL

\* CASE WHEN current_attempts >= max_attempts THEN now() + INTERVAL '24 hours'
\*      ELSE NULL END
BlockedUntilFor(current_attempts, t_now) ==
  IF current_attempts >= max_attempts THEN {t_now + BlockInterval} ELSE NULL

\* SELECT failed_attempts INTO current_attempts ..: NULL when no row is found
SelectFailedAttempts(table, user_email) ==
  {r.failed_attempts : r \in RowsOf(table, user_email)}

\* The write with the success branch leaving blocked_until as it is
RecordWrite_KeepsBlock(table, t_now, user_email, is_successful, selected) ==
  IF is_successful
  THEN Upsert(table, user_email, 0,
              UNION {r.blocked_until : r \in RowsOf(table, user_email)})
  ELSE LET current_attempts == Coalesce(selected, 0) + 1 IN
       Upsert(table, user_email, current_attempts,
              BlockedUntilFor(current_attempts, t_now))

\* The write counting from 1 again once the block has run out
RecordWrite_FreshAfterExpiry(table, t_now, user_email, is_successful, selected) ==
  IF is_successful
  THEN Upsert(table, user_email, 0, NULL)
  ELSE LET expired == \E r \in RowsOf(table, user_email) :
                        \E t \in r.blocked_until : t <= t_now
           current_attempts == IF expired THEN 1 ELSE Coalesce(selected, 0) + 1
       IN Upsert(table, user_email, current_attempts,
                 BlockedUntilFor(current_attempts, t_now))

\* The write of public.record_login_attempt, given the current_attempts its
\* SELECT read: the reset on success, the increment on failure.
RecordWrite(table, t_now, user_email, is_successful, selected) ==
  IF is_successful
  THEN Upsert(table, user_email, 0, NULL)
  ELSE LET current_attempts == Coalesce(selected, 0) + 1 IN
       Upsert(table, user_email, current_attempts,
              BlockedUntilFor(current_attempts, t_now))

\* A failed attempt (a call that will record a failure) may start while fewer
\* than MaxFailed of them were started.
MayFail(n) == n < MaxFailed

\* ------------------------------------------------------------ invocations

\* What signIn returns: { error, isBlocked? }.  error is "null" for no error,
\* "invalid_credentials" for the verification's own error passed through,
\* "blocked_before" / "blocked_after" for the two blocked messages,
\* "attempts_remaining" for the warning (with the number it shows) and
\* "exception" for the err of the catch block.
Result(error, isBlocked, remaining) ==
  [error |-> error, isBlocked |-> isBlocked, remaining |-> remaining]

NoResult == Result("pending", FALSE, 0)

\* The locals of one invocation: what was called with which inputs (ok: for
\* signIn whether the password is the account's, for a direct call its
\* is_successful argument) and what each awaited call gave.  recCalls lists the record_login_attempt calls the
\* invocation issued (history), logged whether it wrote to console.error,
\* attOut how the read of failed_attempts ended.
NewInv(op, email, ok) ==
  [op |-> op, email |-> email, ok |-> ok,
   chk |-> "none", verify |-> "none", recCalls |-> << >>,
   recOut |-> "none", attOut |-> "none", logged |-> FALSE,
   result |-> NoResult]

NoInv == NewInv("none", "a@b.com", FALSE)

PcValues == {"idle", "verify", "record", "rla_upsert", "after", "ret"}

TypeOK ==
  /\ \A r \in login_attempts :
       /\ r.email \in Emails
       /\ r.failed_attempts \in Nat
       /\ r.blocked_until \subseteq Nat
       /\ Cardinality(r.blocked_until) <= 1
  /\ \A e \in Emails : Cardinality(RowsOf(login_attempts, e)) <= 1
  /\ now \in 0..MaxTime
  /\ pc \in [Clients -> PcValues]
  /\ \A p \in Clients : cur[p] \subseteq Nat
  /\ \A p \in Clients : pc[p] = "idle" => inv[p] = NoInv
  /\ fails \in [Emails -> 0..MaxFailed]
  /\ started \in 0..MaxFailed

\* The login guard before any call: no row, every client idle.
GuardInit ==
  /\ login_attempts = {}
  /\ now = 0
  /\ pc = [p \in Clients |-> "idle"]
  /\ cur = [p \in Clients |-> NULL]
  /\ inv = [p \in Clients |-> NoInv]
  /\ fails = [e \in Emails |-> 0]
  /\ started = 0

\* -------------------------------------------------------- the quiz's state

\* CREATE TYPE option_enum AS ENUM ('A', 'B', 'C', 'D')
Options == {"A", "B", "C", "D"}

Sessions == {"t1", "t2"}
Users == {"u1", "u2"}
Papers == {"P1", "P2"}

\* The Index page of a signed-in user with the paper selection showing:
\* appState 'papers', selectedPaper ''.  loading, questions and submit are
\* the state of the QuizInterface when it shows (submit: the questions the
\* running handleSubmitQuiz was called with, once its first write is done),
\* results and loading the state of the ResultsView when it shows, toast
\* the last toast the showing component raised (its title, and for the
\* submit's error toast the error whose message it describes).
NoQuiz(u) ==
  [user |-> u, appState |-> "papers", selectedPaper |-> "",
   loading |-> FALSE, questions |-> << >>, submit |-> NULL,
   results |-> NULL, toast |-> ""]

\* The Leaderboard component before its first fetch.
NoBoard ==
  [paperName |-> "", leaderboard |-> << >>, loading |-> FALSE, toast |-> ""]

\* No quiz data, nobody in a quiz.
QuizIdle ==
  /\ questions = {}
  /\ user_answers = {}
  /\ leaderboard = {}
  /\ quiz = [s \in Sessions |-> NoQuiz("u1")]
  /\ board = NoBoard

Init ==
  /\ GuardInit
  /\ QuizIdle

\* The outcomes of a remote call: it runs and answers, or the store is
\* unreachable and the client library answers { data: null, error }, or the
\* call throws.
RpcOutcomes == {"ok", "error", "thrown"}

\* try { .. } catch (err) { console.error(..); return { error: err } }
Caught == Result("exception", FALSE, 0)

\* ------------------------------------------------- record_login_attempt

\* A client issues supabase.rpc('record_login_attempt', ..).  When the store
\* is reached the procedure starts: its SELECT reads current_attempts.  A
\* call that throws inside signIn lands in signIn's catch block.
IssueRecord(p, is_successful, out) ==
  LET e == inv[p].email
      issued == [inv[p] EXCEPT
                   !.recCalls = Append(@, [user_email |-> e,
                                           is_successful |-> is_successful]),
                   !.recOut = out]
  IN
  /\ pc[p] = "record"
  /\ IF out = "ok"
     THEN /\ cur' = [cur EXCEPT ![p] = SelectFailedAttempts(login_attempts, e)]
          /\ pc' = [pc EXCEPT ![p] = "rla_upsert"]
          /\ inv' = [inv EXCEPT ![p] = issued]
     ELSE IF out = "error"
     THEN /\ pc' = [pc EXCEPT ![p] = IF inv[p].op = "signIn" THEN "after" ELSE "ret"]
          /\ inv' = [inv EXCEPT ![p] = issued]
          /\ UNCHANGED cur
     ELSE /\ pc' = [pc EXCEPT ![p] = "ret"]
          /\ inv' = [inv EXCEPT ![p] =
                       IF inv[p].op = "signIn"
                       THEN [issued EXCEPT !.logged = TRUE, !.result = Caught]
                       ELSE issued]
          /\ UNCHANGED cur
  /\ UNCHANGED <<login_attempts, now, fails, started>>

\* The procedure's INSERT .. ON CONFLICT (email) DO UPDATE, and its return.
RecordUpsert(p) ==
  LET e == inv[p].email
      is_successful == inv[p].recCalls[Len(inv[p].recCalls)].is_successful
  IN
  /\ pc[p] = "rla_upsert"
  /\ login_attempts' = RecordWrite(login_attempts, now, e, is_successful, cur[p])
  /\ fails' = [fails EXCEPT ![e] = IF is_successful THEN 0 ELSE @ + 1]
  /\ cur' = [cur EXCEPT ![p] = NULL]
  /\ pc' = [pc EXCEPT ![p] = IF inv[p].op = "signIn" THEN "after" ELSE "ret"]
  /\ UNCHANGED <<now, inv, started>>

\* Any client of the store may call the procedure directly:
\* rpc('record_login_attempt', { user_email, is_successful }).
DirectRecord(p, e, is_successful) ==
  /\ pc[p] = "idle"
  /\ is_successful \/ MayFail(started)
  /\ started' = IF is_successful THEN started ELSE started + 1
  /\ pc' = [pc EXCEPT ![p] = "record"]
  /\ inv' = [inv EXCEPT ![p] = NewInv("rpc", e, is_successful)]
  /\ UNCHANGED <<login_attempts, now, cur, fails>>

DirectIssue(p, out) ==
  /\ inv[p].op = "rpc"
  /\ IssueRecord(p, inv[p].ok, out)

\* ------------------------------------------------------------------ signIn

\* The policy "System can manage login attempts" .. FOR ALL TO service_role
\* USING (true) is the table's only policy, and row level security is on.
PolicyRoles == {"service_role"}

\* The role of the browser's client (the anon key, or a signed-in user).
ClientRoles == {"anon", "authenticated"}

\* supabase.from('login_attempts').select('failed_attempts').eq('email', ..)
\* .maybeSingle() as a client of the given role: the rows the policy shows.
ClientSelect(table, role, email) ==
  IF role \in PolicyRoles THEN SelectFailedAttempts(table, email) ELSE NULL

\* signIn line 221 to 236: the result after a failed verification, from the
\* attempts row the client read (NULL: no row, or no data).
\* attempts?.failed_attempts || 0
FailureResult(attempts) ==
  LET failedAttempts == Coalesce(attempts, 0)
      remainingAttempts == ClientMaxAttempts - failedAttempts
  IN
  IF remainingAttempts <= 0 THEN Result("blocked_after", TRUE, 0)
  ELSE IF remainingAttempts <= 2
       THEN Result("attempts_remaining", FALSE, remainingAttempts)
       ELSE Result("invalid_credentials", FALSE, 0)

\* signIn going on to the verification whatever is_user_blocked answered
SignInStart_IgnoresBlock(p, e, password_ok, out) ==
  LET fresh == NewInv("signIn", e, password_ok)
      data == IF out = "ok" THEN is_user_blocked(login_attempts, now, e)
              ELSE FALSE
  IN
  /\ pc[p] = "idle"
  /\ password_ok \/ MayFail(started)
  /\ started' = IF password_ok THEN started ELSE started + 1
  /\ inv' = [inv EXCEPT ![p] =
               [fresh EXCEPT !.chk = IF out = "thrown" THEN "thrown"
                                     ELSE IF data THEN "true"
                                     ELSE IF out = "ok" THEN "false" ELSE "error"]]
  /\ pc' = [pc EXCEPT ![p] = "verify"]
  /\ UNCHANGED <<login_attempts, now, cur, fails>>

\* signIn is called and awaits rpc('is_user_blocked'): const { data: isBlocked }
\* if (isBlocked) return { error: .., isBlocked: true }
SignInStart(p, e, password_ok, out) ==
  LET fresh == NewInv("signIn", e, password_ok)
      data == IF out = "ok" THEN is_user_blocked(login_attempts, now, e)
              ELSE FALSE
  IN
  /\ pc[p] = "idle"
  /\ password_ok \/ MayFail(started)
  /\ started' = IF password_ok THEN started ELSE started + 1
  /\ IF out = "thrown"
     THEN /\ inv' = [inv EXCEPT ![p] =
                       [fresh EXCEPT !.chk = "thrown", !.logged = TRUE,
                                       !.result = Caught]]
          /\ pc' = [pc EXCEPT ![p] = "ret"]
     ELSE IF data
     THEN /\ inv' = [inv EXCEPT ![p] =
                       [fresh EXCEPT !.chk = "true",
                                       !.result = Result("blocked_before", TRUE, 0)]]
          /\ pc' = [pc EXCEPT ![p] = "ret"]
     ELSE /\ inv' = [inv EXCEPT ![p] =
                       [fresh EXCEPT !.chk = IF out = "ok" THEN "false" ELSE "error"]]
          /\ pc' = [pc EXCEPT ![p] = "verify"]
  /\ UNCHANGED <<login_attempts, now, cur, fails>>

\* const { error } = await supabase.auth.signInWithPassword({ email, password })
SignInVerify(p, thrown) ==
  /\ pc[p] = "verify"
  /\ IF thrown
     THEN /\ inv' = [inv EXCEPT ![p].verify = "thrown", ![p].logged = TRUE,
                                     ![p].result = Caught]
          /\ pc' = [pc EXCEPT ![p] = "ret"]
     ELSE /\ inv' = [inv EXCEPT ![p].verify =
                       IF inv[p].ok THEN "ok" ELSE "invalid"]
          /\ pc' = [pc EXCEPT ![p] = "record"]
  /\ UNCHANGED <<login_attempts, now, cur, fails, started>>

\* The attempt recorded with is_successful: !!error
SignInRecord_Inverted(p, out) ==
  /\ inv[p].op = "signIn"
  /\ IssueRecord(p, inv[p].verify # "ok", out)

\* await supabase.rpc('record_login_attempt', { user_email: email,
\*                                              is_successful: !error })
SignInRecord(p, out) ==
  /\ inv[p].op = "signIn"
  /\ IssueRecord(p, inv[p].verify = "ok", out)

\* if (error) { read login_attempts; warn or block } return { error }
SignInFinish(p, role, out) ==
  /\ pc[p] = "after"
  /\ inv[p].op = "signIn"
  /\ IF inv[p].verify = "ok"
     THEN inv' = [inv EXCEPT ![p].result = Result("null", FALSE, 0)]
     ELSE IF out = "thrown"
     THEN inv' = [inv EXCEPT ![p].attOut = out, ![p].logged = TRUE,
                                ![p].result = Caught]
     ELSE LET attempts == IF out = "ok"
                          THEN ClientSelect(login_attempts, role, inv[p].email)
                          ELSE NULL
          IN inv' = [inv EXCEPT ![p].attOut = out,
                                ![p].result = FailureResult(attempts)]
  /\ pc' = [pc EXCEPT ![p] = "ret"]
  /\ UNCHANGED <<login_attempts, now, cur, fails, started>>

\* ------------------------------------------------------ handleResetPassword

\* The reset page's handler up to the record call.  valid: the two password
\* fields agree and have 6 characters or more; upd: how auth.updateUser
\* ended; user: whether auth.getUser answered with the session's user (e is
\* that user's email).  verify holds how the password update ended, chk what
\* getUser gave.
ResetStart(p, e, valid, upd, user) ==
  LET fresh == NewInv("reset", e, TRUE)
  IN
  /\ pc[p] = "idle"
  /\ IF ~valid
     THEN /\ inv' = [inv EXCEPT ![p] = [fresh EXCEPT !.verify = "rejected"]]
          /\ pc' = [pc EXCEPT ![p] = "ret"]
     ELSE IF upd # "ok"
     THEN /\ inv' = [inv EXCEPT ![p] = [fresh EXCEPT !.verify = upd]]
          /\ pc' = [pc EXCEPT ![p] = "ret"]
     ELSE /\ inv' = [inv EXCEPT ![p] =
                       [fresh EXCEPT !.verify = "ok",
                                       !.chk = IF user THEN "user" ELSE "nouser"]]
          /\ pc' = [pc EXCEPT ![p] = IF user THEN "record" ELSE "ret"]
  /\ UNCHANGED <<login_attempts, now, cur, fails, started>>

\* The reset recording a failed attempt
ResetRecord_AsFailure(p, out) ==
  /\ inv[p].op = "reset"
  /\ IssueRecord(p, FALSE, out)

\* await supabase.rpc('record_login_attempt', { user_email: user.email,
\*                                              is_successful: true })
ResetRecord(p, out) ==
  /\ inv[p].op = "reset"
  /\ IssueRecord(p, TRUE, out)

\* The invocation returns to its caller; its locals are gone.
Return(p) ==
  /\ pc[p] = "ret"
  /\ pc' = [pc EXCEPT ![p] = "idle"]
  /\ inv' = [inv EXCEPT ![p] = NoInv]
  /\ UNCHANGED <<login_attempts, now, cur, fails, started>>

\* The clock ticks, between transactions.
Tick ==
  /\ now < MaxTime
  /\ \A p \in Clients : pc[p] # "rla_upsert"
  /\ now' = now + 1
  /\ UNCHANGED <<login_attempts, pc, cur, inv, fails, started>>

\* One step of a client that calls the procedure directly.
RpcStep(p, es) ==
  \/ \E e \in es, s \in BOOLEAN : DirectRecord(p, e, s)
  \/ \E out \in RpcOutcomes : DirectIssue(p, out)
  \/ RecordUpsert(p)
  \/ Return(p)

\* One step of a client in signIn.
SignInStep(p, es) ==
  \/ \E e \in es, ok \in BOOLEAN, out \in RpcOutcomes : SignInStart(p, e, ok, out)
  \/ \E thrown \in BOOLEAN : SignInVerify(p, thrown)
  \/ \E out \in RpcOutcomes : SignInRecord(p, out)
  \/ \E role \in ClientRoles, out \in RpcOutcomes : SignInFinish(p, role, out)

\* Concurrent clients, each signing in or calling the procedure, all about
\* one email.
Next ==
  /\ \/ \E p \in Clients : SignInStep(p, {"a@b.com"})
     \/ \E p \in Clients : RpcStep(p, {"a@b.com"})
     \/ Tick
  /\ UNCHANGED quizVars

Spec == Init /\ [][Next]_vars

\* One client, so that calls follow one another; any email.
SeqNext ==
  /\ \/ SignInStep("s1", Emails)
     \/ RpcStep("s1", Emails)
     \/ Tick
  /\ UNCHANGED quizVars

SpecSeq == Init /\ [][SeqNext]_vars

\* Concurrent clients that only call signIn with a wrong password for one
\* email; every call to the store answers, and the clock stands still.
GuessNext ==
  /\ \E p \in Clients :
       \/ SignInStart(p, "a@b.com", FALSE, "ok")
       \/ SignInVerify(p, FALSE)
       \/ SignInRecord(p, "ok")
       \/ RecordUpsert(p)
       \/ \E role \in ClientRoles : SignInFinish(p, role, "ok")
       \/ Return(p)
  /\ UNCHANGED quizVars

SpecGuess == Init /\ [][GuessNext]_vars

\* One step of a client on the reset page.
ResetStep(p, es) ==
  \/ \E e \in es, valid \in BOOLEAN, upd \in RpcOutcomes, user \in BOOLEAN :
       ResetStart(p, e, valid, upd, user)
  \/ \E out \in RpcOutcomes : ResetRecord(p, out)
  \/ RecordUpsert(p)
  \/ Return(p)

\* One client signing in and another on the reset page, about one email.
ResetNext ==
  /\ \/ SignInStep("s1", {"a@b.com"})
     \/ RecordUpsert("s1")
     \/ Return("s1")
     \/ ResetStep("s2", {"a@b.com"})
     \/ Tick
  /\ UNCHANGED quizVars

SpecReset == Init /\ [][ResetNext]_vars

\* ========================================================= the quiz flow

\* ---------------------------------------------------------- quiz queries

\* supabase.from('questions').select('*').eq('paper_name', paperName)
\*   .order('question_no').limit(100)
\* (question_no is unique within a paper)
SelectQuestions(table, paperName) ==
  LET S == {r \in table : r.paper_name = paperName}
      rank(r) == Cardinality({x \in S : x.question_no < r.question_no}) + 1
      n == Cardinality(S)
      m == IF n < QuestionLimit THEN n ELSE QuestionLimit
  IN [i \in 1..m |-> CHOOSE r \in S : rank(r) = i]

\* supabase.from('user_answers').select('*').eq('user_id', user?.id)
\*   .in('question_id', questionIds)
SelectAnswers(table, user_id, questionIds) ==
  {a \in table : a.user_id = user_id /\ a.question_id \in questionIds}

\* questionsData.map(q => q.id)
IdsOf(qs) == {qs[i].id : i \in 1..Len(qs)}

\* The answer object a component keeps for a question: undefined is NULL.
AnswerOf(selected, submitted) ==
  {[selected_option |-> selected, is_submitted |-> submitted]}

\* questionsData.map(question => ({ ...question, user_answer:
\*   answersData.find(answer => answer.question_id === question.id) }))
WithAnswers(questionsData, answersData) ==
  [i \in 1..Len(questionsData) |->
     [id |-> questionsData[i].id,
      correct_option |-> questionsData[i].correct_option,
      user_answer |->
        LET found == {a \in answersData :
                        a.question_id = questionsData[i].id}
        IN IF found = {} THEN NULL
           ELSE LET a == CHOOSE x \in found : TRUE
                IN AnswerOf(a.selected_option, a.is_submitted)]]

\* ------------------------------------------------------------ the scoring

\* q.user_answer?.selected_option: NULL when there is no answer object or
\* its option is null
Selected(q) ==
  IF q.user_answer = NULL THEN NULL
  ELSE (CHOOSE a \in q.user_answer : TRUE).selected_option

\* The attempted count taken over the answers marked submitted only
TotalAttempted_Submitted(qs) ==
  LET Test(q) == /\ Selected(q) # NULL
                 /\ \E a \in q.user_answer : a.is_submitted
  IN Len(SelectSeq(qs, Test))

\* questions.filter(q => q.user_answer?.selected_option).length
TotalAttempted(qs) ==
  LET Test(q) == Selected(q) # NULL
  IN Len(SelectSeq(qs, Test))

\* The correct count taken as the count of answered questions
TotalCorrect_Answered(qs) ==
  LET Test(q) == Selected(q) # NULL
  IN Len(SelectSeq(qs, Test))

\* questions.filter(q =>
\*   q.user_answer?.selected_option === q.correct_option).length
TotalCorrect(qs) ==
  LET Test(q) == Selected(q) = {q.correct_option}
  IN Len(SelectSeq(qs, Test))

\* The percentage without its factor 100
ScorePercentage_Fraction(totalCorrect, totalQuestions) ==
  IF totalQuestions > 0
  THEN [num |-> totalCorrect, den |-> totalQuestions]
  ELSE [num |-> 0, den |-> 1]

\* The percentage as the share of wrong answers
ScorePercentage_Wrong(totalCorrect, totalQuestions) ==
  IF totalQuestions > 0
  THEN [num |-> (2 * totalQuestions - totalCorrect) * 100,
        den |-> totalQuestions]
  ELSE [num |-> 0, den |-> 1]

\* totalQuestions > 0 ? (totalCorrect / totalQuestions) * 100 : 0
\* The number is kept as the fraction num / den.
ScorePercentage(totalCorrect, totalQuestions) ==
  IF totalQuestions > 0
  THEN [num |-> totalCorrect * 100, den |-> totalQuestions]
  ELSE [num |-> 0, den |-> 1]

\* The four numbers both components compute from a question list.
Score(qs) ==
  [totalQuestions |-> Len(qs),
   totalAttempted |-> TotalAttempted(qs),
   totalCorrect |-> TotalCorrect(qs),
   scorePercentage |-> ScorePercentage(TotalCorrect(qs), Len(qs))]

\* score_percentage DECIMAL(5,2): the number rounded to two decimals, kept
\* in hundredths.
Decimal52(x) == (2 * 100 * x.num + x.den) \div (2 * x.den)

\* ------------------------------------------------------------- Index page

\* Of one session: s shows c.
At(s, c) == quiz[s].appState = c

\* handleSelectPaper: the QuizInterface mounts and starts fetchQuestions.
handleSelectPaper(s, paperName) ==
  /\ At(s, "papers")
  /\ quiz' = [quiz EXCEPT ![s] =
       [NoQuiz(quiz[s].user) EXCEPT !.appState = "quiz",
                                    !.selectedPaper = paperName,
                                    !.loading = TRUE]]
  /\ UNCHANGED <<questions, user_answers, leaderboard, board>>

\* handleBackToPapers, from the quiz or from the results.
handleBackToPapers(s) ==
  /\ At(s, "quiz") \/ At(s, "results")
  /\ ~quiz[s].loading
  /\ quiz[s].submit = NULL
  /\ quiz' = [quiz EXCEPT ![s] = NoQuiz(quiz[s].user)]
  /\ UNCHANGED <<questions, user_answers, leaderboard, board>>

\* ---------------------------------------------------------- QuizInterface

\* fetchQuestions: the two queries and setQuestions; a failed query leaves
\* the list empty.
fetchQuestions(s, out) ==
  /\ At(s, "quiz")
  /\ quiz[s].loading
  /\ IF out = "ok"
     THEN LET questionsData == SelectQuestions(questions, quiz[s].selectedPaper)
              answersData == SelectAnswers(user_answers, quiz[s].user,
                                           IdsOf(questionsData))
          IN quiz' = [quiz EXCEPT
                        ![s].questions = WithAnswers(questionsData, answersData),
                        ![s].loading = FALSE]
     ELSE quiz' = [quiz EXCEPT ![s].loading = FALSE,
                               ![s].toast = "Error fetching questions"]
  /\ UNCHANGED <<questions, user_answers, leaderboard, board>>

\* handleAnswerChange for the question at index i.  The upsert names no
\* conflict target, so it resolves conflicts on the primary key id only; the
\* payload carries no id, and a second row for the same (user_id,
\* question_id) breaks the UNIQUE constraint: the write fails.
handleAnswerChange(s, i, selectedOption, out) ==
  LET question == quiz[s].questions[i]
      exists == \E a \in user_answers :
                  a.user_id = quiz[s].user /\ a.question_id = question.id
  IN
  /\ At(s, "quiz")
  /\ ~quiz[s].loading
  /\ i \in 1..Len(quiz[s].questions)
  /\ IF out = "ok" /\ ~exists
     THEN /\ user_answers' = user_answers \cup
               {[user_id |-> quiz[s].user, question_id |-> question.id,
                 selected_option |-> {selectedOption},
                 is_submitted |-> FALSE]}
          /\ quiz' = [quiz EXCEPT
                        ![s].questions[i].user_answer =
                           AnswerOf({selectedOption}, FALSE),
                        ![s].toast = ""]
     ELSE /\ quiz' = [quiz EXCEPT ![s].toast = "Error saving answer"]
          /\ UNCHANGED user_answers
  /\ UNCHANGED <<questions, leaderboard, board>>

\* handleSubmitQuiz going on to the insert whatever the first write gave
SubmitMark_IgnoresError(s, out) ==
  /\ At(s, "quiz")
  /\ ~quiz[s].loading
  /\ Len(quiz[s].questions) # 0
  /\ quiz[s].submit = NULL
  /\ Cardinality(leaderboard)
       + Cardinality({t \in Sessions : quiz[t].submit # NULL}) < MaxRows
  /\ IF out = "ok"
     THEN /\ user_answers' =
               {IF a.user_id = quiz[s].user
                     /\ a.question_id \in IdsOf(quiz[s].questions)
                THEN [a EXCEPT !.is_submitted = TRUE] ELSE a :
                a \in user_answers}
          /\ quiz' = [quiz EXCEPT ![s].submit = {quiz[s].questions},
                                  ![s].toast = ""]
     ELSE /\ quiz' = [quiz EXCEPT
                        ![s].submit = {quiz[s].questions},
                        ![s].toast = "Error submitting quiz: updateError"]
          /\ UNCHANGED user_answers
  /\ UNCHANGED <<questions, leaderboard, board>>

\* handleSubmitQuiz up to its first await: the answers of the user to the
\* paper's questions are marked submitted.  The button shows once the
\* questions are loaded and there is at least one.
SubmitMark(s, out) ==
  LET questionIds == IdsOf(quiz[s].questions)
  IN
  /\ At(s, "quiz")
  /\ ~quiz[s].loading
  /\ Len(quiz[s].questions) # 0
  /\ quiz[s].submit = NULL
  /\ Cardinality(leaderboard)
       + Cardinality({t \in Sessions : quiz[t].submit # NULL}) < MaxRows
  /\ IF out = "ok"
     THEN /\ user_answers' =
               {IF a.user_id = quiz[s].user /\ a.question_id \in questionIds
                THEN [a EXCEPT !.is_submitted = TRUE] ELSE a :
                a \in user_answers}
          /\ quiz' = [quiz EXCEPT ![s].submit = {quiz[s].questions},
                                  ![s].toast = ""]
     ELSE /\ quiz' = [quiz EXCEPT
                        ![s].toast = "Error submitting quiz: updateError"]
          /\ UNCHANGED user_answers
  /\ UNCHANGED <<questions, leaderboard, board>>

\* The row handleSubmitQuiz inserts for the question list qs; id and
\* completed_at are the table's defaults (a fresh id, now()).
LeaderboardRow(table, t_now, user_id, paperName, qs) ==
  [id |-> Cardinality(table) + 1,
   user_id |-> user_id,
   paper_name |-> paperName,
   score_percentage |-> Decimal52(Score(qs).scorePercentage),
   total_questions |-> Score(qs).totalQuestions,
   total_correct |-> Score(qs).totalCorrect,
   total_attempted |-> Score(qs).totalAttempted,
   completed_at |-> t_now]

\* The insert replacing the user's earlier rows for the paper
SubmitInsert_Replaces(s, out) ==
  /\ quiz[s].submit # NULL
  /\ IF out = "ok"
     THEN /\ leaderboard' =
               {r \in leaderboard :
                  ~(r.user_id = quiz[s].user
                    /\ r.paper_name = quiz[s].selectedPaper)}
               \cup
               {LeaderboardRow(leaderboard, now, quiz[s].user,
                               quiz[s].selectedPaper,
                               CHOOSE qs \in quiz[s].submit : TRUE)}
          /\ quiz' = [quiz EXCEPT ![s] =
               [NoQuiz(quiz[s].user) EXCEPT
                  !.appState = "results",
                  !.selectedPaper = quiz[s].selectedPaper,
                  !.loading = TRUE,
                  !.toast = "Quiz submitted successfully"]]
     ELSE /\ quiz' = [quiz EXCEPT
                        ![s].submit = NULL,
                        ![s].toast = "Error submitting quiz: leaderboardError"]
          /\ UNCHANGED leaderboard
  /\ UNCHANGED <<questions, user_answers, board>>

\* The submit calling onSubmit after a failed insert too
SubmitInsert_EntersResults(s, out) ==
  /\ quiz[s].submit # NULL
  /\ leaderboard' =
       IF out = "ok"
       THEN leaderboard \cup
              {LeaderboardRow(leaderboard, now, quiz[s].user,
                              quiz[s].selectedPaper,
                              CHOOSE qs \in quiz[s].submit : TRUE)}
       ELSE leaderboard
  /\ quiz' = [quiz EXCEPT ![s] =
       [NoQuiz(quiz[s].user) EXCEPT
          !.appState = "results",
          !.selectedPaper = quiz[s].selectedPaper,
          !.loading = TRUE,
          !.toast = IF out = "ok" THEN "Quiz submitted successfully"
                    ELSE "Error submitting quiz: leaderboardError"]]
  /\ UNCHANGED <<questions, user_answers, board>>

\* handleSubmitQuiz from the score to its end: the leaderboard insert, then
\* onSubmit (handleQuizSubmit: the ResultsView mounts and starts
\* fetchResults).  A failed insert ends in the catch block.
SubmitInsert(s, out) ==
  /\ quiz[s].submit # NULL
  /\ IF out = "ok"
     THEN /\ leaderboard' = leaderboard \cup
               {LeaderboardRow(leaderboard, now, quiz[s].user,
                               quiz[s].selectedPaper,
                               CHOOSE qs \in quiz[s].submit : TRUE)}
          /\ quiz' = [quiz EXCEPT ![s] =
               [NoQuiz(quiz[s].user) EXCEPT
                  !.appState = "results",
                  !.selectedPaper = quiz[s].selectedPaper,
                  !.loading = TRUE,
                  !.toast = "Quiz submitted successfully"]]
     ELSE /\ quiz' = [quiz EXCEPT
                        ![s].submit = NULL,
                        ![s].toast = "Error submitting quiz: leaderboardError"]
          /\ UNCHANGED leaderboard
  /\ UNCHANGED <<questions, user_answers, board>>

\* ------------------------------------------------------------ ResultsView

\* fetchResults: the two queries, the score, setResults.
fetchResults(s, out) ==
  /\ At(s, "results")
  /\ quiz[s].loading
  /\ IF out = "ok"
     THEN LET questionsData == SelectQuestions(questions, quiz[s].selectedPaper)
              answersData == SelectAnswers(user_answers, quiz[s].user,
                                           IdsOf(questionsData))
              questionsWithAnswers == WithAnswers(questionsData, answersData)
          IN quiz' = [quiz EXCEPT
                        ![s].results =
                           {[totalQuestions |-> Score(questionsWithAnswers).totalQuestions,
                             totalAttempted |-> Score(questionsWithAnswers).totalAttempted,
                             totalCorrect |-> Score(questionsWithAnswers).totalCorrect,
                             scorePercentage |-> Score(questionsWithAnswers).scorePercentage,
                             questions |-> questionsWithAnswers]},
                        ![s].loading = FALSE]
     ELSE quiz' = [quiz EXCEPT ![s].loading = FALSE,
                               ![s].toast = "Error fetching results"]
  /\ UNCHANGED <<questions, user_answers, leaderboard, board>>

\* reset_quiz_answers(p_user_id, p_paper_name): the answer rows of the user
\* to the questions of the paper lose their submission state.  The rows
\* are deleted, or kept and marked not submitted: the possible tables.
reset_quiz_answers(table, p_user_id, p_paper_name) ==
  LET ids == IdsOf(SelectQuestions(questions, p_paper_name))
      hit(a) == a.user_id = p_user_id /\ a.question_id \in ids
  IN {{a \in table : ~hit(a)},
      {IF hit(a) THEN [a EXCEPT !.is_submitted = FALSE] ELSE a : a \in table}}

\* The reset also clearing the user's leaderboard rows of the paper
handleResetQuiz_ClearsBoard(s, out) ==
  /\ At(s, "results")
  /\ ~quiz[s].loading
  /\ quiz[s].results # NULL
  /\ IF out = "ok"
     THEN /\ user_answers' \in reset_quiz_answers(user_answers, quiz[s].user,
                                                  quiz[s].selectedPaper)
          /\ leaderboard' =
               {r \in leaderboard :
                  ~(r.user_id = quiz[s].user
                    /\ r.paper_name = quiz[s].selectedPaper)}
          /\ quiz' = [quiz EXCEPT ![s] =
               [NoQuiz(quiz[s].user) EXCEPT
                  !.appState = "quiz",
                  !.selectedPaper = quiz[s].selectedPaper,
                  !.loading = TRUE,
                  !.toast = "Quiz reset successfully"]]
     ELSE /\ quiz' = [quiz EXCEPT ![s].toast = "Error resetting quiz"]
          /\ UNCHANGED <<user_answers, leaderboard>>
  /\ UNCHANGED <<questions, board>>

\* handleResetQuiz: the rpc, then onRetakeQuiz (handleRetakeQuiz: the
\* QuizInterface mounts again and starts fetchQuestions).  The button is on
\* the results screen once the results are shown.
handleResetQuiz(s, out) ==
  /\ At(s, "results")
  /\ ~quiz[s].loading
  /\ quiz[s].results # NULL
  /\ IF out = "ok"
     THEN /\ user_answers' \in reset_quiz_answers(user_answers, quiz[s].user,
                                                  quiz[s].selectedPaper)
          /\ quiz' = [quiz EXCEPT ![s] =
               [NoQuiz(quiz[s].user) EXCEPT
                  !.appState = "quiz",
                  !.selectedPaper = quiz[s].selectedPaper,
                  !.loading = TRUE,
                  !.toast = "Quiz reset successfully"]]
     ELSE /\ quiz' = [quiz EXCEPT ![s].toast = "Error resetting quiz"]
          /\ UNCHANGED user_answers
  /\ UNCHANGED <<questions, leaderboard, board>>

\* ------------------------------------------------------ quiz specifications

\* One step of a session in the quiz.
QuizStep(s) ==
  \/ \E paperName \in Papers : handleSelectPaper(s, paperName)
  \/ handleBackToPapers(s)
  \/ \E out \in {"ok", "error"} : fetchQuestions(s, out)
  \/ \E i \in 1..MaxQuestions, o \in {"A", "B"}, out \in {"ok", "error"} :
       handleAnswerChange(s, i, o, out)
  \/ \E out \in {"ok", "error"} : SubmitMark(s, out)
  \/ \E out \in {"ok", "error"} : SubmitInsert(s, out)
  \/ \E out \in {"ok", "error"} : fetchResults(s, out)

\* The questions table of a run: paper P1 with n questions numbered from 1
\* and the given correct options, paper P2 with none.
QuestionsOf(paperName, correct) ==
  {[id |-> i, paper_name |-> paperName, question_no |-> i,
    correct_option |-> correct[i]] : i \in 1..Len(correct)}

\* The sessions in the paper selection; the tables empty but for the
\* questions.
QuizInit ==
  /\ GuardInit
  /\ \E n \in 0..MaxQuestions :
       \E correct \in [1..n -> {"A", "B"}] :
         questions = QuestionsOf("P1", correct)
  /\ user_answers = {}
  /\ leaderboard = {}
  /\ quiz = [s \in Sessions |-> NoQuiz("u1")]
  /\ board = NoBoard

\* One session at the quiz, and the clock.
QuizNext ==
  \/ QuizStep("t1") /\ UNCHANGED <<now, guardVars>>
  \/ Tick /\ UNCHANGED quizVars

SpecQuiz == QuizInit /\ [][QuizNext]_vars

\* The scoring on its own: the store holds any paper P1 of up to MaxLen
\* questions and, for user u1 and each question, no answer row, a row with a
\* null option or a row with option A or D; session t1 has just mounted the
\* QuizInterface or the ResultsView for P1.
ScoreInit ==
  /\ GuardInit
  /\ \E n \in 0..MaxLen :
       \E correct \in [1..n -> {"A", "B", "C"}] :
         \E given \in [1..n -> {"none", "null", "A", "D"}] :
           /\ questions = QuestionsOf("P1", correct)
           /\ user_answers =
                {[user_id |-> "u1", question_id |-> i,
                  selected_option |->
                    IF given[i] = "null" THEN NULL ELSE {given[i]},
                  is_submitted |-> FALSE] :
                 i \in {j \in 1..n : given[j] # "none"}}
  /\ leaderboard = {}
  /\ \E c \in {"quiz", "results"} :
       quiz = [s \in Sessions |->
                 IF s = "t1"
                 THEN [NoQuiz("u1") EXCEPT !.appState = c,
                                           !.selectedPaper = "P1",
                                           !.loading = TRUE]
                 ELSE NoQuiz("u1")]
  /\ board = NoBoard

\* Session t1 loads, submits and looks at its results.
ScoreNext ==
  /\ \/ \E out \in {"ok", "error"} : fetchQuestions("t1", out)
     \/ \E out \in {"ok", "error"} : SubmitMark("t1", out)
     \/ \E out \in {"ok", "error"} : SubmitInsert("t1", out)
     \/ \E out \in {"ok", "error"} : fetchResults("t1", out)
  /\ UNCHANGED <<now, guardVars>>

SpecScore == ScoreInit /\ [][ScoreNext]_vars

\* ============================================================ Leaderboard

\* new Date(entry.completed_at): the column holds microseconds, a Date whole
\* milliseconds; the digits below the millisecond are dropped.
ParseDate(completed_at) == completed_at \div TicksPerMs

\* The position of the entry of a user in the Map, 0 when it has none.
\* userLatestScores.get(entry.user_id)
IndexOfUser(map, user_id) ==
  IF \E i \in 1..Len(map) : map[i].user_id = user_id
  THEN CHOOSE i \in 1..Len(map) : map[i].user_id = user_id
  ELSE 0

\* The Map keyed by the row's id
LatestStep_ByRow(map, entry) ==
  LET i == IF \E k \in 1..Len(map) : map[k].id = entry.id
           THEN CHOOSE k \in 1..Len(map) : map[k].id = entry.id
           ELSE 0
  IN
  IF i = 0 THEN Append(map, entry)
  ELSE IF ParseDate(entry.completed_at) > ParseDate(map[i].completed_at)
       THEN [map EXCEPT ![i] = entry]
       ELSE map

\* The entry replaced when the new one is earlier
LatestStep_Earliest(map, entry) ==
  LET i == IndexOfUser(map, entry.user_id)
  IN
  IF i = 0 THEN Append(map, entry)
  ELSE IF ParseDate(entry.completed_at) < ParseDate(map[i].completed_at)
       THEN [map EXCEPT ![i] = entry]
       ELSE map

\* The body of the forEach: a Map keeps its keys in the order of their first
\* insertion; set on a key it has replaces the value in place.
\* if (!existingEntry || new Date(entry.completed_at) >
\*     new Date(existingEntry.completed_at)) userLatestScores.set(..)
LatestStep(map, entry) ==
  LET i == IndexOfUser(map, entry.user_id)
  IN
  IF i = 0 THEN Append(map, entry)
  ELSE IF ParseDate(entry.completed_at) > ParseDate(map[i].completed_at)
       THEN [map EXCEPT ![i] = entry]
       ELSE map

\* leaderboardWithProfiles.forEach(..), then Array.from(map.values())
RECURSIVE UserLatestScores(_)
UserLatestScores(data) ==
  IF data = << >> THEN << >>
  ELSE LatestStep(UserLatestScores(SubSeq(data, 1, Len(data) - 1)),
                  data[Len(data)])

\* The comparator of the sort: negative when a goes before b.
Compare(a, b) ==
  IF b.score_percentage # a.score_percentage
  THEN b.score_percentage - a.score_percentage
  ELSE ParseDate(a.completed_at) - ParseDate(b.completed_at)

\* Array.prototype.sort is stable: an element goes behind every element it
\* does not strictly precede.
RECURSIVE SortEntries(_)
SortEntries(entries) ==
  IF entries = << >> THEN << >>
  ELSE LET sorted == SortEntries(SubSeq(entries, 1, Len(entries) - 1))
           e == entries[Len(entries)]
           k == Cardinality({i \in 1..Len(sorted) : Compare(sorted[i], e) <= 0})
       IN SubSeq(sorted, 1, k) \o <<e>> \o SubSeq(sorted, k + 1, Len(sorted))

\* .slice(0, 20)
Slice(entries, n) ==
  SubSeq(entries, 1, IF Len(entries) < n THEN Len(entries) ELSE n)

\* What fetchLeaderboard makes of the rows the query returned.
RankLeaderboard(data) ==
  Slice(SortEntries(UserLatestScores(data)), LeaderboardLimit)

\* The answers the store may give to
\* from('leaderboard').select(..).eq('paper_name', paperName)
\*   .order('completed_at', { ascending: false }):
\* the paper's rows, latest first, rows of equal completed_at in any order.
RECURSIVE LatestFirst(_)
LatestFirst(S) ==
  IF S = {} THEN {<< >>}
  ELSE LET latest == {r \in S : \A x \in S : r.completed_at >= x.completed_at}
       IN UNION {{<<r>> \o rest : rest \in LatestFirst(S \ {r})} :
                 r \in latest}

\* The query without its paper filter
SelectLeaderboard_AllPapers(table, paperName) == LatestFirst(table)

SelectLeaderboard(table, paperName) ==
  LatestFirst({r \in table : r.paper_name = paperName})

\* The Leaderboard component mounts for a paper (or its paperName changes)
\* and starts fetchLeaderboard.
ShowLeaderboard(paperName) ==
  /\ ~board.loading
  /\ board' = [paperName |-> paperName, leaderboard |-> board.leaderboard,
               loading |-> TRUE, toast |-> ""]
  /\ UNCHANGED <<questions, user_answers, leaderboard, quiz>>

\* fetchLeaderboard: the query answers with data, or fails.
fetchLeaderboard(out) ==
  /\ board.loading
  /\ IF out = "ok"
     THEN \E data \in SelectLeaderboard(leaderboard, board.paperName) :
            board' = [board EXCEPT !.leaderboard = RankLeaderboard(data),
                                   !.loading = FALSE]
     ELSE board' = [board EXCEPT !.loading = FALSE,
                                 !.toast = "Error fetching leaderboard"]
  /\ UNCHANGED <<questions, user_answers, leaderboard, quiz>>

\* A leaderboard table of up to MaxEntries rows: any users, papers, scores
\* (in hundredths) and completion times up to MaxStamp; the rows differ.
RankScores == {9000, 9500}

EntryChoices ==
  [user_id : Users, paper_name : Papers, score_percentage : RankScores,
   completed_at : 0..MaxStamp]

\* An order on the drawn rows, to draw each set of rows once.
EntryKey(c) ==
  ((((IF c.user_id = "u1" THEN 0 ELSE 1) * 2
      + (IF c.paper_name = "P1" THEN 0 ELSE 1)) * 2
      + (IF c.score_percentage = 9000 THEN 0 ELSE 1)) * (MaxStamp + 1))
    + c.completed_at

RankInit ==
  /\ GuardInit
  /\ questions = {}
  /\ user_answers = {}
  /\ quiz = [s \in Sessions |-> NoQuiz("u1")]
  /\ board = NoBoard
  /\ \E n \in 0..MaxEntries :
       \E c \in [1..n -> EntryChoices] :
         /\ \A i \in 1..n : i < n => EntryKey(c[i]) < EntryKey(c[i + 1])
         /\ leaderboard =
              {[id |-> i,
                user_id |-> c[i].user_id,
                paper_name |-> c[i].paper_name,
                score_percentage |-> c[i].score_percentage,
                total_questions |-> 20,
                total_correct |-> (c[i].score_percentage * 20) \div 10000,
                total_attempted |-> 20,
                completed_at |-> c[i].completed_at] : i \in 1..n}

RankNext ==
  /\ \/ \E paperName \in Papers : ShowLeaderboard(paperName)
     \/ \E out \in {"ok", "error"} : fetchLeaderboard(out)
  /\ UNCHANGED <<now, guardVars>>

SpecRank == RankInit /\ [][RankNext]_vars

\* The whole application of one user: the quiz, the results with the reset
\* and the retake, and the leaderboard the results screen shows for the
\* paper of the quiz.
RetakeNext ==
  /\ \/ QuizStep("t1")
     \/ \E out \in {"ok", "error"} : handleResetQuiz("t1", out)
     \/ /\ At("t1", "results")
        /\ quiz["t1"].results # NULL
        /\ ShowLeaderboard(quiz["t1"].selectedPaper)
     \/ \E out \in {"ok", "error"} : fetchLeaderboard(out)
  /\ UNCHANGED <<now, guardVars>>

SpecRetake == QuizInit /\ [][RetakeNext]_vars

\* Two browser sessions at the quiz of paper P1 at the same time, of one
\* user or of two: both have just mounted the QuizInterface.
SubmitInit ==
  /\ GuardInit
  /\ \E n \in 1..MaxQuestions :
       \E correct \in [1..n -> {"A", "B"}] :
         questions = QuestionsOf("P1", correct)
  /\ user_answers = {}
  /\ leaderboard = {}
  /\ \E other \in Users :
       quiz = [s \in Sessions |->
                 [NoQuiz(IF s = "t1" THEN "u1" ELSE other) EXCEPT
                    !.appState = "quiz",
                    !.selectedPaper = "P1",
                    !.loading = TRUE]]
  /\ board = NoBoard

\* The steps of the two sessions interleave: each loads the questions,
\* answers and submits.
SubmitNext ==
  /\ \E s \in Sessions :
       \/ \E out \in {"ok", "error"} : fetchQuestions(s, out)
       \/ \E i \in 1..MaxQuestions, o \in {"A", "B"}, out \in {"ok", "error"} :
            handleAnswerChange(s, i, o, out)
       \/ \E out \in {"ok", "error"} : SubmitMark(s, out)
       \/ \E out \in {"ok", "error"} : SubmitInsert(s, out)
  /\ UNCHANGED <<now, guardVars>>

SpecSubmit == SubmitInit /\ [][SubmitNext]_vars

\* A leaderboard of paper P1 with more users than the list is long: users 1
\* to n (a number stands for a user's id), each with one attempt, completed
\* in the order of the ids or against it; user high (if any) scored more
\* than the others, and user again (if any) also has an earlier attempt
\* with the best score of all.
TopInit ==
  /\ GuardInit
  /\ questions = {}
  /\ user_answers = {}
  /\ quiz = [s \in Sessions |-> NoQuiz("u1")]
  /\ board = NoBoard
  /\ \E n \in 0..MaxUsers :
       \E high \in 0..n, again \in 0..n, ascending \in BOOLEAN :
         leaderboard =
           {[id |-> i,
             user_id |-> i,
             paper_name |-> "P1",
             score_percentage |-> IF i = high THEN 9500 ELSE 9000,
             total_questions |-> 20,
             total_correct |-> IF i = high THEN 19 ELSE 18,
             total_attempted |-> 20,
             completed_at |-> IF ascending THEN i ELSE n + 1 - i] :
            i \in 1..n}
           \cup
           {[id |-> n + 1,
             user_id |-> i,
             paper_name |-> "P1",
             score_percentage |-> 10000,
             total_questions |-> 20,
             total_correct |-> 20,
             total_attempted |-> 20,
             completed_at |-> 0] : i \in {again} \ {0}}

SpecTop == TopInit /\ [][RankNext]_vars

\* ------------------------------------------------------------------ claims

\* The row of an email as the claims read it: the stored count (0 without a
\* row) and whether a block time is stored.
StoredCount(table, e) == Coalesce(SelectFailedAttempts(table, e), 0)
StoredBlock(table, e) == UNION {r.blocked_until : r \in RowsOf(table, e)}

\* The record_login_attempt call client p has in progress.
LastCall(p) == inv[p].recCalls[Len(inv[p].recCalls)]

\* This step is the write of a record_login_attempt call of client p.
WriteBy(p) == pc[p] = "rla_upsert" /\ pc'[p] # "rla_upsert"

\* C1: in a run where calls follow one another, every failed
\* record_login_attempt call raises the stored failed_attempts by exactly 1,
\* to the number of failures since the last success; blocked_until turns from
\* NULL to non-null exactly at the call that makes the count 5, and on every
\* call that leaves the count at 5 or more it is set to now + 24h.
C1_Step(p) ==
  LET e == inv[p].email
      count == StoredCount(login_attempts', e)
      block == StoredBlock(login_attempts', e)
  IN (WriteBy(p) /\ ~LastCall(p).is_successful) =>
       /\ Cardinality(RowsOf(login_attempts', e)) = 1
       /\ count = StoredCount(login_attempts, e) + 1
       /\ count = fails[e] + 1
       /\ (StoredBlock(login_attempts, e) = {} /\ block # {}) <=> (count = 5)
       /\ (count >= 5) => (block = {now + BlockInterval})
       /\ (count < 5) => (block = {})

C1_FailuresCountAndBlock == [][\A p \in Clients : C1_Step(p)]_vars

\* A sixth failure in a row is stored, with the block set forward again.
C1_Witness ==
  \E r \in login_attempts :
    /\ r.failed_attempts = 6
    /\ fails[r.email] = 6
    /\ r.blocked_until = {now + BlockInterval}
    /\ now > 0

\* C2: with concurrent record_login_attempt calls, once no call is between
\* its read and its write, the stored failed_attempts equals the number of
\* failed calls since the last success, and blocked_until is non-null when
\* that number is 5 or more.
C2_NoLostFailure ==
  \A e \in Emails :
    (\A p \in Clients : ~(pc[p] = "rla_upsert" /\ inv[p].email = e)) =>
      /\ StoredCount(login_attempts, e) = fails[e]
      /\ (fails[e] >= 5) => (StoredBlock(login_attempts, e) # {})

\* C3: the write of a successful record_login_attempt call leaves the email's
\* row with failed_attempts = 0 and blocked_until = NULL, whatever was stored
\* before, and is_user_blocked false for it.
C3_Step(p) ==
  LET e == inv[p].email IN
  (WriteBy(p) /\ LastCall(p).is_successful) =>
    /\ RowsOf(login_attempts', e) =
         {[email |-> e, failed_attempts |-> 0, blocked_until |-> {}]}
    /\ ~is_user_blocked(login_attempts', now', e)

C3_SuccessResets == [][\A p \in Clients : C3_Step(p)]_vars

\* A successful call has returned and left the row reset, at time 0, while
\* another client's signIn was refused because the email was blocked.
C3_Witness ==
  \E p \in Clients, q \in Clients :
    /\ pc[p] = "ret" /\ inv[p].recOut = "ok" /\ inv[p].op = "rpc"
    /\ LastCall(p).is_successful
    /\ pc[q] = "ret" /\ inv[q].chk = "true" /\ inv[q].email = inv[p].email
    /\ now = 0
    /\ RowsOf(login_attempts, inv[p].email) =
         {[email |-> inv[p].email, failed_attempts |-> 0, blocked_until |-> {}]}

\* This step is signIn's is_user_blocked call of client p, answered.
CheckBy(p) == pc[p] = "idle" /\ inv'[p].op = "signIn"
                /\ inv'[p].chk \in {"true", "false"}

\* C4: is_user_blocked answers true exactly when a row of the email exists
\* whose blocked_until is non-null and later than the current time, false
\* without a row, and the call changes neither the table nor the time.
C4_Step(p) ==
  LET e == inv'[p].email IN
  CheckBy(p) =>
    /\ (inv'[p].chk = "true") <=>
         (\E r \in login_attempts :
            r.email = e /\ \E t \in r.blocked_until : t > now)
    /\ (RowsOf(login_attempts, e) = {}) => (inv'[p].chk = "false")
    /\ login_attempts' = login_attempts
    /\ now' = now

C4_IsUserBlocked == [][\A p \in Clients : C4_Step(p)]_vars

\* is_user_blocked answered false for an email whose block has just run out.
C4_Witness ==
  \E p \in Clients :
    /\ inv[p].op = "signIn" /\ inv[p].chk = "false" /\ pc[p] = "verify"
    /\ StoredBlock(login_attempts, inv[p].email) = {now}

\* C5: the failed call that makes the number of failures since the last
\* success 5 leaves is_user_blocked true, and from then on it stays true
\* over every step that neither records a success for the email nor brings
\* the time to the stored blocked_until.
C5_Step(e) ==
  /\ (fails[e] = 4 /\ fails'[e] = 5) => is_user_blocked(login_attempts', now', e)
  /\ ( /\ fails[e] >= 5
       /\ is_user_blocked(login_attempts, now, e)
       /\ fails'[e] # 0
       /\ \E t \in StoredBlock(login_attempts, e) : now' < t )
     => is_user_blocked(login_attempts', now', e)

C5_BlockedUntilSuccessOrExpiry == [][\A e \in Emails : C5_Step(e)]_vars

\* C6: in every state, a row whose blocked_until is non-null has
\* failed_attempts >= 5.
C6_BlockOnlyAtFive ==
  \A r \in login_attempts : (r.blocked_until # {}) => (r.failed_attempts >= 5)

\* A row with a block stored exists.
C6_Witness ==
  \E r \in login_attempts : r.blocked_until # {} /\ r.failed_attempts = 5

\* C7: an invocation of signIn whose is_user_blocked call answered true
\* returns the blocked result (isBlocked: true) without ever calling
\* signInWithPassword, and without recording an attempt.
C7_BlockedShortCircuits ==
  \A p \in Clients :
    (inv[p].op = "signIn" /\ inv[p].chk = "true") =>
      /\ pc[p] = "ret"
      /\ inv[p].verify = "none"
      /\ inv[p].recCalls = << >>
      /\ inv[p].result.isBlocked
      /\ inv[p].result.error = "blocked_before"

\* A signIn with the right password was refused as blocked.
C7_Witness ==
  \E p \in Clients :
    /\ inv[p].op = "signIn" /\ inv[p].chk = "true" /\ inv[p].ok
    /\ pc[p] = "ret"

\* C8: an invocation of signIn issues no record_login_attempt call before
\* its verification answered, and once the verification answered (valid or
\* invalid credentials) and the invocation went on, it has issued exactly one,
\* for its email, with is_successful equal to the verification's outcome.
C8_RecordsEveryVerification ==
  \A p \in Clients :
    (inv[p].op = "signIn") =>
      /\ (inv[p].verify \notin {"ok", "invalid"}) => (inv[p].recCalls = << >>)
      /\ (pc[p] \in {"idle", "verify", "record"}) => (inv[p].recCalls = << >>)
      /\ (inv[p].verify \in {"ok", "invalid"} /\ pc[p] # "record") =>
           inv[p].recCalls = <<[user_email |-> inv[p].email,
                                is_successful |-> (inv[p].verify = "ok")]>>

\* Two signIn invocations are about to return, one after valid and one after
\* invalid credentials, each with its attempt recorded.
C8_Witness ==
  \E p \in Clients, q \in Clients :
    /\ pc[p] = "ret" /\ inv[p].verify = "ok" /\ Len(inv[p].recCalls) = 1
    /\ pc[q] = "ret" /\ inv[q].verify = "invalid" /\ Len(inv[q].recCalls) = 1

\* C9: an invocation of signIn whose is_user_blocked read failed (the store
\* did not answer) has not verified credentials for an email that is blocked.
C9_FailsClosed ==
  \A p \in Clients :
    ~ ( /\ inv[p].op = "signIn"
        /\ inv[p].chk = "error"
        /\ inv[p].verify \in {"ok", "invalid"}
        /\ is_user_blocked(login_attempts, now, inv[p].email) )

\* C10: a signIn invocation whose record_login_attempt call failed returns
\* the verification's result (no error after valid credentials, the
\* credential error otherwise) and surfaces the failure: it is logged.
C10_RecordFailureSurfaced ==
  \A p \in Clients :
    ( /\ inv[p].op = "signIn" /\ pc[p] = "ret"
      /\ inv[p].recOut \in {"error", "thrown"} ) =>
      /\ (inv[p].verify = "ok") => (inv[p].result.error = "null")
      /\ (inv[p].verify = "invalid") =>
           (inv[p].result.error \in
              {"invalid_credentials", "attempts_remaining", "blocked_after"})
      /\ inv[p].logged

\* C11: once a failed verification has been recorded and the read of the
\* login_attempts row has answered, with n the stored failed_attempts of the
\* email, signIn returns the blocked result exactly when 5 - n <= 0, the
\* warning with 5 - n attempts remaining exactly when 1 <= 5 - n <= 2, and
\* the verification's own error otherwise.
C11_WarningFromStoredCount ==
  \A p \in Clients :
    ( /\ pc[p] = "ret" /\ inv[p].op = "signIn"
      /\ inv[p].verify = "invalid"
      /\ inv[p].recOut = "ok" /\ inv[p].attOut = "ok" ) =>
    LET n == StoredCount(login_attempts, inv[p].email)
    IN inv[p].result =
         IF 5 - n <= 0 THEN Result("blocked_after", TRUE, 0)
         ELSE IF 5 - n <= 2 THEN Result("attempts_remaining", FALSE, 5 - n)
         ELSE Result("invalid_credentials", FALSE, 0)

\* The reset's record call writes: the row is reset and the email unblocked.
C12_Step ==
  \A p \in Clients :
    ( /\ inv[p].op = "reset"
      /\ pc[p] = "rla_upsert" /\ pc'[p] = "ret" ) =>
    /\ StoredCount(login_attempts', inv[p].email) = 0
    /\ StoredBlock(login_attempts', inv[p].email) = NULL
    /\ ~is_user_blocked(login_attempts', now', inv[p].email)

\* A signIn starts while the email is not blocked and the check answers:
\* it goes on to the verification.
C12_SignInStep ==
  \A q \in Clients :
    ( /\ pc[q] = "idle" /\ pc'[q] # "idle"
      /\ inv'[q].op = "signIn"
      /\ inv'[q].chk \notin {"error", "thrown"}
      /\ ~is_user_blocked(login_attempts, now, inv'[q].email) ) =>
    /\ inv'[q].chk = "false"
    /\ pc'[q] = "verify"

\* A reset whose password update succeeded and that found its user has
\* issued one record call, a successful attempt for the user's email; any
\* other reset has issued none.
C12_Recorded ==
  \A p \in Clients :
    ( inv[p].op = "reset" /\ pc[p] \in {"rla_upsert", "ret"} ) =>
    inv[p].recCalls =
      IF inv[p].verify = "ok" /\ inv[p].chk = "user"
      THEN << [user_email |-> inv[p].email, is_successful |-> TRUE] >>
      ELSE << >>

AttemptedSet(qs) ==
  {i \in 1..Len(qs) :
     \E a \in qs[i].user_answer : a.selected_option # NULL}

CorrectSet(qs) ==
  {i \in 1..Len(qs) :
     \E a \in qs[i].user_answer : a.selected_option = {qs[i].correct_option}}

\* The row a step adds to the leaderboard.
NewRow == CHOOSE r \in leaderboard' : r \notin leaderboard

\* The question list the running handleSubmitQuiz of session s works on.
Submitting(s) == CHOOSE qs \in quiz[s].submit : TRUE

\* The results a ResultsView shows.
ResultsOf(s) == CHOOSE r \in quiz[s].results : TRUE

C13_Step ==
  \A s \in Sessions :
    ( quiz[s].submit # NULL /\ leaderboard' # leaderboard ) =>
    /\ NewRow.total_questions = Len(Submitting(s))
    /\ NewRow.total_attempted = Cardinality(AttemptedSet(Submitting(s)))
    /\ NewRow.total_correct = Cardinality(CorrectSet(Submitting(s)))

C13_Results ==
  \A s \in Sessions :
    quiz[s].results # NULL =>
    /\ ResultsOf(s).totalQuestions = Len(ResultsOf(s).questions)
    /\ ResultsOf(s).totalAttempted =
         Cardinality(AttemptedSet(ResultsOf(s).questions))
    /\ ResultsOf(s).totalCorrect =
         Cardinality(CorrectSet(ResultsOf(s).questions))

\* C13: the score of a question list, as handleSubmitQuiz writes it to the
\* leaderboard and as fetchResults shows it: total is the number of
\* questions, attempted the number of questions with a non-null selected
\* option, correct the number of questions whose selected option equals the
\* correct option; a question without an answer (or with a null option) is
\* never counted correct.
C13_ScoreCounts ==
  /\ [][C13_Step]_vars
  /\ []C13_Results

\* The answers (A, A), (B, none), (C, D) were submitted and are shown: the
\* row and the results say total 3, attempted 2, correct 1.
C13_Witness ==
  /\ quiz["t1"].results # NULL
  /\ LET r == ResultsOf("t1") IN
     /\ Len(r.questions) = 3
     /\ r.questions[1].correct_option = "A" /\ Selected(r.questions[1]) = {"A"}
     /\ r.questions[2].correct_option = "B" /\ r.questions[2].user_answer = NULL
     /\ r.questions[3].correct_option = "C" /\ Selected(r.questions[3]) = {"D"}
     /\ r.totalQuestions = 3 /\ r.totalAttempted = 2 /\ r.totalCorrect = 1
  /\ \E row \in leaderboard :
       /\ row.total_questions = 3
       /\ row.total_attempted = 2
       /\ row.total_correct = 1

C14_Results ==
  \A s \in Sessions :
    quiz[s].results # NULL =>
    LET r == ResultsOf(s)
        total == Len(r.questions)
        correct == Cardinality(CorrectSet(r.questions))
    IN /\ r.scorePercentage.den # 0
       /\ IF total > 0
          THEN r.scorePercentage.num * total
                 = correct * 100 * r.scorePercentage.den
          ELSE r.scorePercentage.num = 0

\* The stored percentage is (correct / total) * 100 rounded to hundredths.
C14_Step ==
  \A s \in Sessions :
    ( quiz[s].submit # NULL /\ leaderboard' # leaderboard ) =>
    LET total == Len(Submitting(s))
        correct == Cardinality(CorrectSet(Submitting(s)))
        d == NewRow.score_percentage * total - correct * 100 * 100
    IN IF total > 0
       THEN 2 * d <= total /\ 2 * (0 - d) <= total
       ELSE NewRow.score_percentage = 0

\* C14: the percentage is (correct / total) * 100 when the question list is
\* not empty and exactly 0 when it is empty; the computation never divides
\* by zero and always gives a number (as fetchResults shows it, and as
\* handleSubmitQuiz stores it, rounded to two decimals).
C14_Percentage ==
  /\ []C14_Results
  /\ [][C14_Step]_vars

\* One correct answer out of three was submitted and is shown: 33.33 in the
\* row, a third of 100 in the results.
C14_Witness ==
  /\ quiz["t1"].results # NULL
  /\ ResultsOf("t1").totalQuestions = 3
  /\ ResultsOf("t1").totalCorrect = 1
  /\ ResultsOf("t1").scorePercentage = [num |-> 100, den |-> 3]
  /\ \E row \in leaderboard : row.score_percentage = 3333

\* C15: in every leaderboard row and in every results view, attempted and
\* correct are at most total, and the percentage is between 0 and 100.
C15_ScoreBounds ==
  /\ \A row \in leaderboard :
       /\ row.total_attempted \in 0..row.total_questions
       /\ row.total_correct \in 0..row.total_questions
       /\ row.score_percentage \in 0..(100 * 100)
  /\ \A s \in Sessions :
       quiz[s].results # NULL =>
       LET r == ResultsOf(s) IN
       /\ r.totalAttempted \in 0..r.totalQuestions
       /\ r.totalCorrect \in 0..r.totalQuestions
       /\ r.scorePercentage.num >= 0
       /\ r.scorePercentage.den > 0
       /\ r.scorePercentage.num <= 100 * r.scorePercentage.den

\* A row with every question answered and right (100), and a results view
\* of the same answers.
C15_Witness ==
  /\ \E row \in leaderboard :
       /\ row.total_questions = 3
       /\ row.total_attempted = 3
       /\ row.total_correct = 3
       /\ row.score_percentage = 100 * 100
  /\ quiz["t1"].results # NULL
  /\ ResultsOf("t1").totalCorrect = 3

\* Session s finishes a submit in this step: onSubmit is called.
SubmitDone(s) == At(s, "quiz") /\ quiz'[s].appState = "results"

\* C16: a successful submit adds exactly one row to the leaderboard, for the
\* session's user and paper, and leaves every existing row as it is; no
\* other step of the quiz changes the leaderboard.  So k successful submits
\* of a paper by a user leave k rows.
C16_Step ==
  /\ \A s \in Sessions :
       SubmitDone(s) =>
       /\ leaderboard \subseteq leaderboard'
       /\ Cardinality(leaderboard') = Cardinality(leaderboard) + 1
       /\ NewRow.user_id = quiz[s].user
       /\ NewRow.paper_name = quiz[s].selectedPaper
       /\ \A r \in leaderboard : r.id # NewRow.id
  /\ (\A s \in Sessions : ~SubmitDone(s)) => leaderboard' = leaderboard

C16_OneRowPerSubmit == [][C16_Step]_vars

\* The user has submitted paper P1 twice: two rows, the session at the
\* results of the second submit.
C16_Witness ==
  /\ At("t1", "results")
  /\ quiz["t1"].toast = "Quiz submitted successfully"
  /\ Cardinality({r \in leaderboard :
                    r.user_id = "u1" /\ r.paper_name = "P1"}) = 2

\* The first write of a submit fails in this step.
MarkFailed(s) ==
  /\ quiz[s].submit = NULL
  /\ quiz'[s] # quiz[s]
  /\ quiz'[s].toast = "Error submitting quiz: updateError"

\* The first write of a submit succeeds in this step.
MarkDone(s) == quiz[s].submit = NULL /\ quiz'[s].submit # NULL

\* C17: handleSubmitQuiz first marks the user's answers to the paper's
\* questions submitted, then computes the score over the whole question
\* list it was called with and inserts the row; a row is inserted only by a
\* submit whose first write succeeded, and a submit whose first write fails
\* inserts nothing, changes no answer and stays in the quiz.
C17_Step ==
  \A s \in Sessions :
    /\ MarkDone(s) =>
         /\ leaderboard' = leaderboard
         /\ quiz'[s].appState = "quiz"
         /\ quiz'[s].submit = {quiz[s].questions}
         /\ \A a \in user_answers' :
              ( a.user_id = quiz[s].user
                /\ a.question_id \in IdsOf(quiz[s].questions) )
              => a.is_submitted
    /\ MarkFailed(s) =>
         /\ leaderboard' = leaderboard
         /\ user_answers' = user_answers
         /\ quiz'[s].appState = "quiz"
         /\ quiz'[s].submit = NULL
    /\ SubmitDone(s) =>
         /\ quiz[s].submit # NULL
         /\ NewRow.total_questions = Len(Submitting(s))
         /\ Len(Submitting(s))
              = Cardinality({q \in questions :
                              q.paper_name = quiz[s].selectedPaper})
         /\ user_answers' = user_answers

C17_SubmitOrder == [][C17_Step]_vars

\* A submit whose first write failed: the answer is still not submitted,
\* no row, the quiz still showing.
C17_Witness ==
  /\ At("t1", "quiz")
  /\ quiz["t1"].toast = "Error submitting quiz: updateError"
  /\ quiz["t1"].submit = NULL
  /\ leaderboard = {}
  /\ \E a \in user_answers : a.user_id = "u1" /\ ~a.is_submitted

\* The rows of the table for the paper the Leaderboard component shows.
PaperRows == {r \in leaderboard : r.paper_name = board.paperName}

\* fetchLeaderboard sets the ranked list in this step.
Ranked == board.loading /\ ~board'.loading /\ board'.toast = ""

\* The entries of a ranked list, as a set.
EntriesOf(view) == {view[i] : i \in 1..Len(view)}

\* C18: the ranked list never holds two entries with the same user_id.
C18_OneEntryPerUser ==
  \A i, j \in 1..Len(board.leaderboard) :
    i # j => board.leaderboard[i].user_id # board.leaderboard[j].user_id

\* A ranked list of two users for a paper with three rows, two of them of
\* one user.
C18_Witness ==
  /\ ~board.loading /\ board.toast = "" /\ board.paperName = "P1"
  /\ Len(board.leaderboard) = 2
  /\ Cardinality(PaperRows) = 3
  /\ Cardinality({r \in PaperRows : r.user_id = "u1"}) = 2

\* C19: whatever order the store returns the paper's rows in (latest first,
\* as the query asks, rows of equal completed_at in any order), the ranked
\* list is made of rows of the paper, holds an entry for every user with a
\* row, and the entry of a user is one with the greatest completed_at among
\* that user's rows of the paper, compared as times; no earlier attempt of
\* the user is in the list.
C19_Step ==
  Ranked =>
  /\ EntriesOf(board'.leaderboard) \subseteq PaperRows
  /\ \A r \in PaperRows :
       \E e \in EntriesOf(board'.leaderboard) :
         /\ e.user_id = r.user_id
         /\ e.completed_at >= r.completed_at
  /\ \A r \in PaperRows :
       ( \E x \in PaperRows : x.user_id = r.user_id
                              /\ x.completed_at > r.completed_at )
       => r \notin EntriesOf(board'.leaderboard)

C19_LatestPerUser == [][C19_Step]_vars

\* User u1 has two attempts at P1 within one millisecond, with different
\* scores; the list shows the later one.
C19_Witness ==
  /\ ~board.loading /\ board.toast = "" /\ board.paperName = "P1"
  /\ \E a, b \in PaperRows :
       /\ a.user_id = "u1" /\ b.user_id = "u1"
       /\ a.completed_at = 2 /\ b.completed_at = 3
       /\ a.score_percentage # b.score_percentage
       /\ b \in EntriesOf(board.leaderboard)
       /\ a \notin EntriesOf(board.leaderboard)

\* C20: the ranked list is ordered by score_percentage descending and, among
\* entries of equal score_percentage, by completed_at ascending.
C20_Ordered ==
  \A i, j \in 1..Len(board.leaderboard) :
    i < j =>
    \/ board.leaderboard[i].score_percentage
         > board.leaderboard[j].score_percentage
    \/ /\ board.leaderboard[i].score_percentage
           = board.leaderboard[j].score_percentage
       /\ board.leaderboard[i].completed_at
           <= board.leaderboard[j].completed_at

\* The users with a row for the paper shown, and the rows of a user that
\* are the user's latest.
PaperUsers == {r.user_id : r \in PaperRows}

LatestRows(u) ==
  {r \in PaperRows :
     /\ r.user_id = u
     /\ \A x \in PaperRows : x.user_id = u => x.completed_at <= r.completed_at}

\* C21: the ranked list has at most 20 entries: as many as there are users
\* with a row for the paper when these are at most 20, and 20 otherwise;
\* each entry is the latest attempt of its user, and the latest attempt of
\* a user left out does not rank above an entry of the list: it has neither
\* a higher score nor an equal score and an earlier completion.
C21_Step ==
  Ranked =>
  LET view == board'.leaderboard
      n == Cardinality(PaperUsers)
  IN /\ Len(view) <= 20
     /\ Len(view) = IF n <= 20 THEN n ELSE 20
     /\ \A i \in 1..Len(view) : view[i] \in LatestRows(view[i].user_id)
     /\ \A u \in PaperUsers \ {e.user_id : e \in EntriesOf(view)} :
          \A r \in LatestRows(u), e \in EntriesOf(view) :
            /\ r.score_percentage <= e.score_percentage
            /\ r.score_percentage = e.score_percentage
                 => r.completed_at >= e.completed_at

C21_TopTwenty == [][C21_Step]_vars

\* C22: every entry of the ranked list of a paper has that paper's name,
\* and only users with a row for the paper are in the list: the list is the
\* same as if the rows of the other papers did not exist.
C22_Step ==
  Ranked =>
  /\ \A e \in EntriesOf(board'.leaderboard) :
       /\ e.paper_name = board.paperName
       /\ e.user_id \in PaperUsers
  /\ \E data \in SelectLeaderboard(PaperRows, board.paperName) :
       board'.leaderboard = RankLeaderboard(data)

C22_PaperOnly == [][C22_Step]_vars

\* The list of P1 is shown while user u2 has a row for P2 only, one with a
\* higher score than the row of P1.
C22_Witness ==
  /\ ~board.loading /\ board.toast = "" /\ board.paperName = "P1"
  /\ Len(board.leaderboard) = 1
  /\ board.leaderboard[1].user_id = "u1"
  /\ \E r \in leaderboard :
       /\ r.user_id = "u2" /\ r.paper_name = "P2"
       /\ r.score_percentage > board.leaderboard[1].score_percentage
  /\ \A r \in leaderboard : r.user_id = "u2" => r.paper_name = "P2"

\* C23: no step of the application changes or removes a leaderboard row:
\* every row of the table is in the table after the step, and the step of
\* the reset leaves the leaderboard and the questions as they are.
C23_Step ==
  /\ leaderboard \subseteq leaderboard'
  /\ ( /\ At("t1", "results")
       /\ quiz'["t1"].toast \in {"Quiz reset successfully",
                                  "Error resetting quiz"}
       /\ quiz["t1"] # quiz'["t1"] )
     => leaderboard' = leaderboard /\ questions' = questions

C23_RowsKept == [][C23_Step]_vars

\* After a submission and a reset the user retakes the quiz: the row of
\* the first attempt is in the table and the answer rows are gone.
C23_Witness ==
  /\ At("t1", "quiz")
  /\ quiz["t1"].toast = "Quiz reset successfully"
  /\ Cardinality(leaderboard) = 1
  /\ \E r \in leaderboard : r.total_attempted = 1
  /\ user_answers = {}

\* C24: with two sessions submitting at the same time (one user in two
\* sessions, or two users), every successful submit adds a row of its own
\* that carries the user, the paper and the score the session computed from
\* its question list, and no step removes or changes a row: there are as
\* many rows as successful submits.
C24_Step ==
  /\ leaderboard \subseteq leaderboard'
  /\ \A s \in Sessions :
       SubmitDone(s) =>
       /\ Cardinality(leaderboard' \ leaderboard) = 1
       /\ NewRow.user_id = quiz[s].user
       /\ NewRow.paper_name = quiz[s].selectedPaper
       /\ NewRow.total_questions = Score(Submitting(s)).totalQuestions
       /\ NewRow.total_attempted = Score(Submitting(s)).totalAttempted
       /\ NewRow.total_correct = Score(Submitting(s)).totalCorrect
       /\ NewRow.score_percentage
            = Decimal52(Score(Submitting(s)).scorePercentage)

C24_RowCount ==
  Cardinality(leaderboard) = Cardinality({s \in Sessions : At(s, "results")})

C24_RaceFree == []C24_RowCount /\ [][C24_Step]_vars

\* Both sessions of user u1 submitted while the other was submitting too:
\* two rows of u1, one for each session, with different scores.
C24_Witness ==
  /\ \A s \in Sessions : At(s, "results") /\ quiz[s].user = "u1"
  /\ \E a, b \in leaderboard :
       /\ a.user_id = "u1" /\ b.user_id = "u1"
       /\ a.total_attempted = 1 /\ b.total_attempted = 0
  /\ Cardinality(leaderboard) = 2

\* The verifications of wrong passwords that have answered so far in a run
\* of failed signIn calls only: those whose failure is written, and those
\* of the invocations between the verification and the write.
Verifications(e) ==
  fails[e] + Cardinality({p \in Clients :
                            /\ inv[p].op = "signIn" /\ inv[p].email = e
                            /\ pc[p] \in {"record", "rla_upsert"}})

\* C25: however concurrent signIn calls with wrong passwords for one email
\* interleave, starting from no record, at most 5 verifications are made.
C25_AtMostFiveGuesses == Verifications("a@b.com") <= 5

\* C26: while the email of a signIn in progress is blocked, no step of the
\* invocation changes the login_attempts table and the invocation does not
\* end in a successful sign-in.  Calls follow one another, so an email that
\* is blocked during the invocation was blocked when it started.
C26_Step ==
  \A p \in Clients :
    ( /\ inv[p].op = "signIn"
      /\ is_user_blocked(login_attempts, now, inv[p].email) ) =>
    /\ login_attempts' = login_attempts
    /\ inv'[p].result.error # "null"

C26_BlockedUntouched == [][C26_Step]_vars

\* The block of an email has run out: blocked_until is set and not later
\* than the current time.
Expired(table, t_now, e) ==
  StoredBlock(table, e) # NULL /\ ~is_user_blocked(table, t_now, e)

\* A row with a blocked_until has 5 failed attempts or more.
C27_BlockedCount ==
  \A e \in Emails :
    StoredBlock(login_attempts, e) # NULL => StoredCount(login_attempts, e) >= 5

\* The passing of time changes no row.
C27_Tick == now' # now => login_attempts' = login_attempts

\* The write of a failed attempt for an email whose block has run out.
C27_Step ==
  \A p \in Clients :
    LET e == inv[p].email IN
    ( /\ WriteBy(p) /\ ~LastCall(p).is_successful
      /\ Expired(login_attempts, now, e) ) =>
    /\ StoredCount(login_attempts', e) = StoredCount(login_attempts, e) + 1
    /\ StoredBlock(login_attempts', e) = {now + BlockInterval}
    /\ is_user_blocked(login_attempts', now', e)

\* C27: when a block runs out the count of failed attempts stays as it is,
\* 5 or more, so the next failed attempt, one alone, blocks the email again
\* until now + 24h.
C27_ReblockedAfterExpiry ==
  /\ []C27_BlockedCount
  /\ [][C27_Tick]_vars
  /\ [][C27_Step]_vars

\* A signIn found the email not blocked although five failures were
\* recorded, so the block had run out; its failure is the sixth and the
\* email is blocked again.
C27_Witness ==
  /\ inv["s1"].op = "signIn" /\ inv["s1"].chk = "false"
  /\ pc["s1"] = "after"
  /\ StoredCount(login_attempts, inv["s1"].email) = 6
  /\ StoredBlock(login_attempts, inv["s1"].email) = {now + BlockInterval}

\* C28: with correct options among A, B, C and D, every question counted
\* as correct is counted as attempted: in every leaderboard row and in
\* every results view correct is at most attempted, and the questions of a
\* results view answered correctly are among those attempted.
C28_CorrectWithinAttempted ==
  /\ \A q \in questions : q.correct_option \in Options
  /\ \A row \in leaderboard : row.total_correct <= row.total_attempted
  /\ \A s \in Sessions :
       quiz[s].results # NULL =>
       /\ ResultsOf(s).totalCorrect <= ResultsOf(s).totalAttempted
       /\ CorrectSet(ResultsOf(s).questions)
            \subseteq AttemptedSet(ResultsOf(s).questions)

\* Three questions, two answered, one of them right: the row and the
\* results view count 1 correct of 2 attempted.
C28_Witness ==
  /\ \E row \in leaderboard :
       /\ row.total_questions = 3
       /\ row.total_attempted = 2
       /\ row.total_correct = 1
  /\ quiz["t1"].results # NULL
  /\ ResultsOf("t1").totalAttempted = 2
  /\ ResultsOf("t1").totalCorrect = 1

\* The question list fetchResults builds for a user and a paper from the
\* stored questions and answers.
StoredList(answers, user_id, paperName) ==
  LET questionsData == SelectQuestions(questions, paperName)
  IN WithAnswers(questionsData,
                 SelectAnswers(answers, user_id, IdsOf(questionsData)))

\* C29: the row a successful submit inserts carries the score the results
\* view computes from the store right after it: the same counts, and the
\* same percentage once rounded to the column's two decimals; the selected
\* options of the submitted list are the stored ones.
C29_Step ==
  \A s \in Sessions :
    SubmitDone(s) =>
    LET stored == StoredList(user_answers', quiz[s].user, quiz[s].selectedPaper)
    IN /\ NewRow.total_questions = Score(stored).totalQuestions
       /\ NewRow.total_attempted = Score(stored).totalAttempted
       /\ NewRow.total_correct = Score(stored).totalCorrect
       /\ NewRow.score_percentage = Decimal52(Score(stored).scorePercentage)
       /\ Len(stored) = Len(Submitting(s))
       /\ \A i \in 1..Len(stored) :
            Selected(stored[i]) = Selected(Submitting(s)[i])

C29_RowMatchesResults == [][C29_Step]_vars

\* The leaderboard insert of a submit of session s fails in this step.
InsertFailed(s) ==
  /\ quiz[s].submit # NULL
  /\ quiz'[s] # quiz[s]
  /\ quiz'[s].toast = "Error submitting quiz: leaderboardError"

\* The stored answers of session s's user to the questions answered in the
\* list qs are marked submitted.
MarkedSubmitted(answers, s, qs) ==
  \A i \in 1..Len(qs) :
    qs[i].user_answer # NULL =>
    \E a \in answers :
      /\ a.user_id = quiz[s].user
      /\ a.question_id = qs[i].id
      /\ a.is_submitted

\* C30: a submit whose insert fails after its first write succeeded leaves
\* both tables as they are, the answers of the submitted list marked
\* submitted and no row added; the session stays in the quiz with its
\* questions and with the submit button enabled again, and every submit that
\* succeeds, a later one from the same screen included, adds exactly one
\* row.
C30_Step ==
  \A s \in Sessions :
    /\ InsertFailed(s) =>
         /\ leaderboard' = leaderboard
         /\ user_answers' = user_answers
         /\ MarkedSubmitted(user_answers', s, Submitting(s))
         /\ quiz'[s].appState = "quiz"
         /\ quiz'[s].results = NULL
         /\ quiz'[s].submit = NULL
         /\ ~quiz'[s].loading
         /\ quiz'[s].questions = quiz[s].questions
         /\ Len(quiz'[s].questions) # 0
    /\ SubmitDone(s) =>
         /\ quiz[s].submit # NULL
         /\ Cardinality(leaderboard' \ leaderboard) = 1
         /\ leaderboard \subseteq leaderboard'

C30_FailedInsert == [][C30_Step]_vars

\* The insert of a submit has failed: the answer is marked submitted, the
\* leaderboard is empty and the session is in the quiz.
C30_Witness ==
  /\ At("t1", "quiz")
  /\ quiz["t1"].toast = "Error submitting quiz: leaderboardError"
  /\ quiz["t1"].submit = NULL
  /\ leaderboard = {}
  /\ user_answers # {}
  /\ \A a \in user_answers : a.is_submitted


====
